---- MODULE Spec2Model ----
(***************************************************************************)
(* Model of the DeReK incident pipeline:                                   *)
(*   src/src/core/text_to_ticket.py  (Extractor, Record Builder, Pipeline) *)
(*   src/src/core/post_to_n8n.py     (Delivery Client, Validator)          *)
(*                                                                         *)
(* A JSON / Python value is a record [t, s, n]: t is the Python type,      *)
(* s the text of a str, n the magnitude of a number in hundredths (so      *)
(* that 1500 and 1500.50 are both representable), 0/1 for a bool, and the  *)
(* number of elements of a list or dict nested in a field (their contents  *)
(* play no part in the code modelled, only their type and emptiness).      *)
(* A dict that the code indexes by key is a function from keys to values.  *)
(***************************************************************************)
EXTENDS Integers, Sequences, FiniteSets, TLC

VARIABLES pc, timeout, today, extracted, ticket, origin, record, valid,
          payload, sent, outcome, result, exc

vars == <<pc, timeout, today, extracted, ticket, origin, record, valid,
          payload, sent, outcome, result, exc>>

(***************************************************************************)
(* Bounds and program constants                                            *)
(***************************************************************************)
\* Number of keys in which a generated dict differs from one of the base dicts.
MaxDeviations == 1

\* N8NWebhookClient.__init__(..., timeout: int = 30)
DefaultTimeout == 30

(***************************************************************************)
(* Values                                                                  *)
(***************************************************************************)
Null == [t |-> "null", s |-> "", n |-> 0]
JBool(b) == [t |-> "bool", s |-> "", n |-> IF b THEN 1 ELSE 0]
JInt(i) == [t |-> "int", s |-> "", n |-> i * 100]
JFloat(h) == [t |-> "float", s |-> "", n |-> h]
JStr(x) == [t |-> "str", s |-> x, n |-> 0]
\* the empty list, and the list whose single element is the string x
JList0 == [t |-> "list", s |-> "", n |-> 0]
JListOf(x) == [t |-> "list", s |-> x, n |-> 1]
\* a dict of k entries held as a field's value
JDictN(k) == [t |-> "dict", s |-> "", n |-> k]

\* bool(v): what `v or default` tests
Truthy(v) ==
  CASE v.t = "null" -> FALSE
    [] v.t = "str" -> v.s # ""
    [] OTHER -> v.n # 0

\* `v or d`
PyOr(v, d) == IF Truthy(v) THEN v ELSE d

\* dict.get(k): None for a missing key
DictGet(o, k) == IF k \in DOMAIN o THEN o[k] ELSE Null

(***************************************************************************)
(* Strings: characters, strip, digits                                      *)
(***************************************************************************)
CharAt(str, i) == SubSeq(str, i, i)

Digits == {"0", "1", "2", "3", "4", "5", "6", "7", "8", "9"}

IsDigit(c) == c \in Digits

DigitVal(c) ==
  CASE c = "0" -> 0 [] c = "1" -> 1 [] c = "2" -> 2 [] c = "3" -> 3
    [] c = "4" -> 4 [] c = "5" -> 5 [] c = "6" -> 6 [] c = "7" -> 7
    [] c = "8" -> 8 [] c = "9" -> 9

Whitespace == {" ", "\t", "\n"}

RECURSIVE LStrip(_)
LStrip(str) ==
  IF Len(str) > 0 /\ CharAt(str, 1) \in Whitespace
  THEN LStrip(SubSeq(str, 2, Len(str)))
  ELSE str

RECURSIVE RStrip(_)
RStrip(str) ==
  IF Len(str) > 0 /\ CharAt(str, Len(str)) \in Whitespace
  THEN RStrip(SubSeq(str, 1, Len(str) - 1))
  ELSE str

\* str.strip()
Strip(str) == RStrip(LStrip(str))

\* "error" in <str>: substring test
Contains(str, sub) ==
  \E i \in 1..(Len(str) - Len(sub) + 1) : SubSeq(str, i, i + Len(sub) - 1) = sub

\* all characters of str[i..j] are digits (true of the empty range)
AllDigits(str, i, j) == \A k \in i..j : IsDigit(CharAt(str, k))

\* value of the digit string str[i..j]
RECURSIVE DigitsVal(_, _, _)
DigitsVal(str, i, j) ==
  IF j < i THEN 0 ELSE DigitsVal(str, i, j - 1) * 10 + DigitVal(CharAt(str, j))

(***************************************************************************)
(* float(), datetime.strptime(..., "%Y-%m-%d"), strftime("%Y-%m-%d")        *)
(***************************************************************************)
\* float() of the text str, already stripped: [sign] digits [. digits] or
\* [sign] . digits.  Values are kept in hundredths, so fraction digits after
\* the second do not show in the value.  (Exponents, inf/nan and digit
\* underscores, which float() also reads, are not among the texts generated.)
ParseFloat(str) ==
  LET signed == Len(str) > 0 /\ CharAt(str, 1) \in {"+", "-"}
      b == IF signed THEN 2 ELSE 1
      e == Len(str)
      dots == {i \in b..e : CharAt(str, i) = "."}
      dot == IF dots = {} THEN e + 1 ELSE CHOOSE i \in dots : \A j \in dots : i <= j
      wellFormed == /\ Cardinality(dots) <= 1
                    /\ AllDigits(str, b, dot - 1)
                    /\ AllDigits(str, dot + 1, e)
                    /\ \E i \in b..e : i # dot
      f1 == IF dot + 1 <= e THEN DigitVal(CharAt(str, dot + 1)) ELSE 0
      f2 == IF dot + 2 <= e THEN DigitVal(CharAt(str, dot + 2)) ELSE 0
      mag == DigitsVal(str, b, dot - 1) * 100 + f1 * 10 + f2
  IN  IF wellFormed
      THEN [exc |-> "", val |-> JFloat(IF signed /\ CharAt(str, 1) = "-" THEN 0 - mag ELSE mag)]
      ELSE [exc |-> "ValueError", val |-> Null]

\* float(v)
PyFloat(v) ==
  CASE v.t \in {"int", "float"} -> [exc |-> "", val |-> JFloat(v.n)]
    [] v.t = "bool" -> [exc |-> "", val |-> JFloat(v.n * 100)]
    [] v.t = "str" -> ParseFloat(Strip(v.s))
    [] OTHER -> [exc |-> "TypeError", val |-> Null]

IsLeap(y) == (y % 4 = 0 /\ y % 100 # 0) \/ y % 400 = 0

DaysInMonth(y, m) ==
  CASE m \in {4, 6, 9, 11} -> 30
    [] m = 2 -> IF IsLeap(y) THEN 29 ELSE 28
    [] OTHER -> 31

\* Length of the month field matched at position p: 1[0-2] | 0[1-9] | [1-9]  (0: no match)
MonthLen(str, p) ==
  LET c1 == CharAt(str, p)
      c2 == CharAt(str, p + 1)
  IN  IF p + 1 <= Len(str) /\ ((c1 = "1" /\ c2 \in {"0", "1", "2"}) \/ (c1 = "0" /\ c2 \in Digits \ {"0"}))
      THEN 2
      ELSE IF p <= Len(str) /\ c1 \in Digits \ {"0"} THEN 1 ELSE 0

\* Length of the day field matched at position p:
\* 3[0-1] | [1-2]\d | 0[1-9] | [1-9] | " "[1-9]   (0: no match)
DayLen(str, p) ==
  LET c1 == CharAt(str, p)
      c2 == CharAt(str, p + 1)
      two == p + 1 <= Len(str)
  IN  IF two /\ ( \/ (c1 = "3" /\ c2 \in {"0", "1"})
                  \/ (c1 \in {"1", "2"} /\ c2 \in Digits)
                  \/ (c1 = "0" /\ c2 \in Digits \ {"0"}) )
      THEN 2
      ELSE IF p <= Len(str) /\ c1 \in Digits \ {"0"} THEN 1
      ELSE IF two /\ c1 = " " /\ c2 \in Digits \ {"0"} THEN 2
      ELSE 0

\* the number a matched day field denotes (int() of the field, blank skipped)
DayVal(str, p, len) ==
  IF CharAt(str, p) = " " THEN DigitVal(CharAt(str, p + 1)) ELSE DigitsVal(str, p, p + len - 1)

\* datetime.strptime(v, "%Y-%m-%d"): "" when it returns a datetime, else the
\* exception it raises.
Strptime(v) ==
  IF v.t # "str" THEN "TypeError"
  ELSE
    LET str == v.s
        yearOk == Len(str) >= 5 /\ AllDigits(str, 1, 4) /\ CharAt(str, 5) = "-"
        ml == IF yearOk THEN MonthLen(str, 6) ELSE 0
        monthOk == ml > 0 /\ 6 + ml <= Len(str) /\ CharAt(str, 6 + ml) = "-"
        dp == 7 + ml
        dl == IF monthOk THEN DayLen(str, dp) ELSE 0
        matched == dl > 0
        consumed == matched /\ dp + dl - 1 = Len(str)
        y == DigitsVal(str, 1, 4)
        m == DigitsVal(str, 6, 5 + ml)
        d == DayVal(str, dp, dl)
    IN  IF consumed /\ y >= 1 /\ d <= DaysInMonth(y, m) THEN "" ELSE "ValueError"

Pad2(k) == IF k < 10 THEN "0" \o ToString(k) ELSE ToString(k)

\* date.strftime("%Y-%m-%d") for a four-digit year
Strftime(date) == ToString(date.y) \o "-" \o Pad2(date.m) \o "-" \o Pad2(date.d)

(***************************************************************************)
(* Records                                                                 *)
(***************************************************************************)
\* required_fields of validate_incident_data, in its order; also the keys of
\* the payload built by create_incident_payload and post_incident
RequiredFields ==
  <<"policyId", "customerName", "incidentDate", "incidentType",
    "description", "location", "estimatedDamage">>

RequiredKeys == {RequiredFields[i] : i \in 1..Len(RequiredFields)}

EmptyObj == [k \in {} |-> Null]

\* What a call hands back: a dict, a value that is no dict, or nothing yet
Obj(o) == [kind |-> "object", obj |-> o, val |-> Null]
Val(v) == [kind |-> "value", obj |-> EmptyObj, val |-> v]
NoValue == [kind |-> "none", obj |-> EmptyObj, val |-> Null]

NoExc == [by |-> "", type |-> ""]

(***************************************************************************)
(* text_to_ticket.py                                                       *)
(***************************************************************************)
\* extract_incident_info, from the completion on: strip, json.loads, and the
\* sentinel on JSONDecodeError.  A completion c says whether its stripped
\* text is a JSON document (c.json) and, if so, the value it denotes.
ExtractIncidentInfo(c) ==
  IF c.json
  THEN c.value
  ELSE Obj([k \in {"error", "raw"} |->
              IF k = "error" THEN JStr("Invalid JSON returned") ELSE JStr(Strip(c.text))])

\* create_incident_payload (the same function in both files)
CreateIncidentPayload(policy_id, customer_name, incident_type, description, location, estimated_damage, incident_date, now) ==
  LET date == IF incident_date = Null THEN JStr(Strftime(now)) ELSE incident_date
  IN  [k \in RequiredKeys |->
         CASE k = "policyId" -> policy_id
           [] k = "customerName" -> customer_name
           [] k = "incidentDate" -> date
           [] k = "incidentType" -> incident_type
           [] k = "description" -> description
           [] k = "location" -> location
           [] k = "estimatedDamage" -> estimated_damage]

\* ErrorIn testing the value under `error` (extracted.get("error")) instead of
\* the presence of the key
ErrorInTruthy(ext) ==
  CASE ext.kind = "object" -> [exc |-> "", yes |-> Truthy(DictGet(ext.obj, "error"))]
    [] ext.val.t = "str" -> [exc |-> "", yes |-> Contains(ext.val.s, "error")]
    [] ext.val.t = "list" -> [exc |-> "", yes |-> ext.val.n = 1 /\ ext.val.s = "error"]
    [] OTHER -> [exc |-> "TypeError", yes |-> FALSE]

\* `"error" in extracted`: "" with the answer, or the exception raised
ErrorIn(ext) ==
  CASE ext.kind = "object" -> [exc |-> "", yes |-> "error" \in DOMAIN ext.obj]
    [] ext.val.t = "str" -> [exc |-> "", yes |-> Contains(ext.val.s, "error")]
    [] ext.val.t = "list" -> [exc |-> "", yes |-> ext.val.n = 1 /\ ext.val.s = "error"]
    [] OTHER -> [exc |-> "TypeError", yes |-> FALSE]

\* text_to_incident_ticket after the extraction: [exc, ret]
TicketOf(ext, now) ==
  LET chk == ErrorIn(ext)
      dmg == PyFloat(PyOr(DictGet(ext.obj, "estimatedDamage"), JFloat(0)))
  IN  IF chk.exc # "" THEN [exc |-> chk.exc, ret |-> NoValue]
      ELSE IF chk.yes THEN [exc |-> "", ret |-> ext]
      ELSE IF ext.kind # "object" THEN [exc |-> "AttributeError", ret |-> NoValue]
      ELSE IF dmg.exc # "" THEN [exc |-> dmg.exc, ret |-> NoValue]
      ELSE [exc |-> "",
            ret |-> Obj(CreateIncidentPayload(
                      PyOr(DictGet(ext.obj, "policyId"), JStr("UNKNOWN")),
                      PyOr(DictGet(ext.obj, "customerName"), JStr("UNKNOWN")),
                      PyOr(DictGet(ext.obj, "incidentType"), JStr("unspecified")),
                      PyOr(DictGet(ext.obj, "description"), JStr("")),
                      PyOr(DictGet(ext.obj, "location"), JStr("unspecified")),
                      dmg.val,
                      DictGet(ext.obj, "incidentDate"),
                      now))]

(***************************************************************************)
(* post_to_n8n.py                                                          *)
(***************************************************************************)
NotValidated == [called |-> FALSE, exc |-> "", ok |-> FALSE, msg |-> Null]

\* isinstance(v, (int, float)); bool is a subclass of int
IsIntOrFloat(v) == v.t \in {"int", "float", "bool"}

\* what strptime's ValueError is turned into
DateFormatError(e) ==
  IF e = "ValueError"
  THEN [called |-> TRUE, exc |-> "", ok |-> FALSE,
        msg |-> JStr("incidentDate must be in YYYY-MM-DD format")]
  ELSE [called |-> TRUE, exc |-> e, ok |-> FALSE, msg |-> Null]

\* FirstMissing for a loop that goes through all the fields before it
\* answers: the last absent field is the one reported
LastMissing(missing) == CHOOSE i \in missing : \A j \in missing : i >= j

\* the field the missing-field loop reports: the first of some that are absent
FirstMissing(missing) == CHOOSE i \in missing : \A j \in missing : i <= j

\* validate_incident_data
ValidateIncidentData(rec) ==
  LET missing == {i \in 1..Len(RequiredFields) : RequiredFields[i] \notin DOMAIN rec}
      parse == Strptime(rec["incidentDate"])
  IN  IF missing # {}
      THEN [called |-> TRUE, exc |-> "", ok |-> FALSE,
            msg |-> JStr("Missing required field: " \o RequiredFields[FirstMissing(missing)])]
      ELSE IF parse # "" THEN DateFormatError(parse)
      ELSE IF ~IsIntOrFloat(rec["estimatedDamage"])
      THEN [called |-> TRUE, exc |-> "", ok |-> FALSE,
            msg |-> JStr("estimatedDamage must be a number")]
      ELSE [called |-> TRUE, exc |-> "", ok |-> TRUE, msg |-> Null]

\* PostPayload with the date and the type taken in the order in which
\* create_incident_payload lists them: each lands under the other's key
PostPayloadSwapped(policy_id, customer_name, incident_date, incident_type, description, location, estimated_damage) ==
  [k \in RequiredKeys |->
     CASE k = "policyId" -> policy_id
       [] k = "customerName" -> customer_name
       [] k = "incidentDate" -> incident_type
       [] k = "incidentType" -> incident_date
       [] k = "description" -> description
       [] k = "location" -> location
       [] k = "estimatedDamage" -> estimated_damage]

\* the payload post_incident builds from its seven arguments
PostPayload(policy_id, customer_name, incident_date, incident_type, description, location, estimated_damage) ==
  [k \in RequiredKeys |->
     CASE k = "policyId" -> policy_id
       [] k = "customerName" -> customer_name
       [] k = "incidentDate" -> incident_date
       [] k = "incidentType" -> incident_type
       [] k = "description" -> description
       [] k = "location" -> location
       [] k = "estimatedDamage" -> estimated_damage]

\* post_incident_from_dict up to the call of post_incident: indexing a
\* missing key raises KeyError
FromDict(rec) ==
  IF RequiredKeys \subseteq DOMAIN rec
  THEN [exc |-> "",
        payload |-> PostPayload(rec["policyId"], rec["customerName"], rec["incidentDate"],
                                rec["incidentType"], rec["description"], rec["location"],
                                rec["estimatedDamage"])]
  ELSE [exc |-> "KeyError", payload |-> EmptyObj]

\* response.raise_for_status(): HTTPError for 4xx and 5xx
RaisesForStatus(status) == 400 <= status /\ status < 600

\* str(HTTPError), as far as it depends on the status
HttpErrorText(status) ==
  ToString(status) \o (IF status < 500 THEN " Client Error" ELSE " Server Error")

Success(status, response) ==
  [k \in {"success", "status_code", "response"} |->
     CASE k = "success" -> JBool(TRUE)
       [] k = "status_code" -> JInt(status)
       [] k = "response" -> response]

Failure(error_msg) ==
  [k \in {"success", "error"} |->
     IF k = "success" THEN JBool(FALSE) ELSE JStr(error_msg)]

\* response.json() of a JSON body, as opposed to response.text
ParsedJson(body) == [t |-> "parsed", s |-> body, n |-> 0]

\* HandleResponse without raise_for_status(): every response is a success
HandleResponseUnchecked(o, tmo) ==
  CASE o.kind = "timeout" ->
         Failure("Request timed out after " \o ToString(tmo) \o " seconds")
    [] o.kind = "network" -> Failure("Request failed: " \o o.body)
    [] OTHER ->
         Success(o.status, IF o.json THEN ParsedJson(o.body) ELSE JStr(o.body))

\* the try block of post_incident after requests.post has ended as o
HandleResponse(o, tmo) ==
  CASE o.kind = "timeout" ->
         Failure("Request timed out after " \o ToString(tmo) \o " seconds")
    [] o.kind = "network" -> Failure("Request failed: " \o o.body)
    [] o.kind = "http" /\ RaisesForStatus(o.status) ->
         Failure("Request failed: " \o HttpErrorText(o.status))
    [] OTHER ->
         Success(o.status, IF o.json THEN ParsedJson(o.body) ELSE JStr(o.body))

\* AfterResponse for handlers that go back to the request after a failure
AfterResponseRetry(o) ==
  IF o.kind \in {"timeout", "network"} \/ (o.kind = "http" /\ RaisesForStatus(o.status))
  THEN "request" ELSE "returned"

\* where post_incident goes once the exchange has ended: every branch returns
AfterResponse(o) == "returned"

(***************************************************************************)
(* Inputs: what the language model, the caller, the clock and the webhook  *)
(* may supply                                                              *)
(***************************************************************************)
ExtraKeys == {"error"}

AllKeys == RequiredKeys \cup ExtraKeys

Absent == [t |-> "absent", s |-> "", n |-> 0]

\* values tried for the five text fields
TextValues ==
  { Null, JStr(""), JStr("Sarah Thompson"), JBool(FALSE), JInt(1500) }

\* values tried for incidentDate
DateValues ==
  { Null, JStr(""), JStr("2024-03-15"), JStr("2024-02-30"), JStr("2024-3-5"),
    JStr("yesterday"), JInt(2024) }

\* values tried for estimatedDamage
DamageValues ==
  { Null, JBool(TRUE), JBool(FALSE), JInt(0), JInt(1500), JFloat(150050),
    JStr(""), JStr(" 1500.50 "), JStr("$1,500"), JListOf("x"), JDictN(1) }

\* values tried for an `error` key
ErrorValues == { Null, JStr("no incident described") }

ValuesFor(k) ==
  CASE k = "incidentDate" -> DateValues
    [] k = "estimatedDamage" -> DamageValues
    [] k = "error" -> ErrorValues
    [] OTHER -> TextValues

FieldValues == TextValues \cup DateValues \cup DamageValues \cup ErrorValues

\* the sample incident of text_to_ticket.py, fully extracted
FullRecord ==
  [k \in RequiredKeys |->
     CASE k = "policyId" -> JStr("PL-4829")
       [] k = "customerName" -> JStr("Sarah Thompson")
       [] k = "incidentDate" -> JStr("2024-03-15")
       [] k = "incidentType" -> JStr("auto accident")
       [] k = "description" -> JStr("rear-ended, back bumper damaged")
       [] k = "location" -> JStr("Main Street, Denver")
       [] k = "estimatedDamage" -> JInt(1500)]

\* "If a field is not mentioned, use null."
AllNullRecord == [k \in RequiredKeys |-> Null]

\* a record with a date in another format and the damage as text
DefectiveRecord ==
  [FullRecord EXCEPT !["incidentDate"] = JStr("13-13-2024"),
                     !["estimatedDamage"] = JStr("1500")]

\* a record that holds only some of the keys, with the same two defects
SparseRecord ==
  [k \in {"policyId", "incidentDate", "estimatedDamage"} |-> DefectiveRecord[k]]

BaseRecords == {FullRecord, AllNullRecord, EmptyObj, DefectiveRecord, SparseRecord}

\* base with the keys of D set as f says (Absent: the key is removed)
Deviate(base, D, f) ==
  [k \in ((DOMAIN base) \ D) \cup {d \in D : f[d] # Absent} |->
     IF k \in D THEN f[k] ELSE base[k]]

\* the dicts generated: each base, changed in at most MaxDeviations keys
Objects ==
  UNION { {Deviate(b, D, f) :
             f \in {g \in [D -> FieldValues \cup {Absent}] :
                      \A k \in D : g[k] \in ValuesFor(k) \cup {Absent}}} :
            b \in BaseRecords,
            D \in {S \in SUBSET AllKeys : Cardinality(S) <= MaxDeviations} }

\* JSON documents that are no object
TopLevelValues ==
  { Null, JBool(TRUE), JInt(42), JStr("n/a"), JStr("error: no incident"),
    JList0, JListOf("error"), JListOf("x") }

\* completions: a JSON document denoting a value, or a text that is no JSON
Completions ==
  {[json |-> TRUE, text |-> "", value |-> Obj(o)] : o \in Objects}
  \cup {[json |-> TRUE, text |-> "", value |-> Val(v)] : v \in TopLevelValues}
  \cup {[json |-> FALSE, text |-> x, value |-> NoValue] :
          x \in {"", "  Sorry, I cannot help with that.\n"}}

\* datetime.now()
Dates == {[y |-> 2024, m |-> 3, d |-> 5], [y |-> 2026, m |-> 11, d |-> 12]}

NoDate == [y |-> 0, m |-> 0, d |-> 0]

NoOutcome == [kind |-> "none", status |-> 0, json |-> FALSE, body |-> ""]

\* how requests.post can end
HttpOutcomes ==
  { [kind |-> "http", status |-> 200, json |-> TRUE, body |-> "{\"ok\":true}"],
    [kind |-> "http", status |-> 200, json |-> FALSE, body |-> "Workflow was started"],
    [kind |-> "http", status |-> 304, json |-> FALSE, body |-> ""],
    [kind |-> "http", status |-> 404, json |-> TRUE, body |-> "{\"message\":\"not registered\"}"],
    [kind |-> "http", status |-> 500, json |-> FALSE, body |-> "Internal Server Error"],
    [kind |-> "timeout", status |-> 0, json |-> FALSE, body |-> ""],
    [kind |-> "network", status |-> 0, json |-> FALSE, body |-> "Connection refused"] }

(***************************************************************************)
(* State machine                                                           *)
(***************************************************************************)
Init ==
  /\ pc = "idle"
  /\ timeout \in {DefaultTimeout, 5}
  /\ today = NoDate
  /\ extracted = NoValue
  /\ ticket = NoValue
  /\ origin = "none"
  /\ record = EmptyObj
  /\ valid = NotValidated
  /\ payload = EmptyObj
  /\ sent = <<>>
  /\ outcome = NoOutcome
  /\ result = EmptyObj
  /\ exc = NoExc

\* text_to_incident_ticket(text): the completion and the clock are inputs.
\* A dict it returns is what the caller holds for the Delivery Client.
TextToIncidentTicket ==
  /\ pc = "idle"
  /\ \E c \in Completions, now \in Dates :
       LET ext == ExtractIncidentInfo(c)
           r == TicketOf(ext, now)
       IN  /\ extracted' = ext
           /\ today' = now
           /\ ticket' = r.ret
           /\ exc' = IF r.exc # "" THEN [by |-> "text_to_incident_ticket", type |-> r.exc]
                      ELSE NoExc
           /\ origin' = IF r.ret.kind = "object" THEN "pipeline" ELSE "none"
           /\ record' = r.ret.obj
           /\ pc' = IF r.exc # "" THEN "raised"
                    ELSE IF r.ret.kind = "object" THEN "record" ELSE "done"
  /\ UNCHANGED <<timeout, valid, payload, sent, outcome, result>>

\* the language-model call fails: nothing catches it
UpstreamFailure ==
  /\ pc = "idle"
  /\ exc' = [by |-> "extract_incident_info", type |-> "APIError"]
  /\ pc' = "raised"
  /\ UNCHANGED <<timeout, today, extracted, ticket, origin, record, valid,
                 payload, sent, outcome, result>>

\* the caller holds a dict of its own for the Delivery Client
CallerRecord ==
  /\ pc = "idle"
  /\ \E r \in Objects : record' = r
  /\ origin' = "caller"
  /\ pc' = "record"
  /\ UNCHANGED <<timeout, today, extracted, ticket, valid, payload, sent,
                 outcome, result, exc>>

\* validate_incident_data(record); the caller goes on whatever it returns
Validate ==
  /\ pc = "record"
  /\ ~valid.called
  /\ LET v == ValidateIncidentData(record)
     IN  /\ valid' = v
         /\ exc' = IF v.exc # "" THEN [by |-> "validate_incident_data", type |-> v.exc]
                    ELSE NoExc
         /\ pc' = IF v.exc # "" THEN "raised" ELSE "record"
  /\ UNCHANGED <<timeout, today, extracted, ticket, origin, record, payload,
                 sent, outcome, result>>

\* post_incident_from_dict(record), up to the request of post_incident
PostIncidentFromDict ==
  /\ pc = "record"
  /\ LET a == FromDict(record)
     IN  /\ payload' = a.payload
         /\ exc' = IF a.exc # "" THEN [by |-> "post_incident_from_dict", type |-> a.exc]
                    ELSE NoExc
         /\ pc' = IF a.exc # "" THEN "raised" ELSE "request"
  /\ sent' = <<>>
  /\ UNCHANGED <<timeout, today, extracted, ticket, origin, record, valid,
                 outcome, result>>

\* requests.post(webhook_url, json=payload, timeout=...): the payload goes out
\* and the exchange ends in one of HttpOutcomes
HttpPost ==
  /\ pc = "request"
  /\ sent' = Append(sent, payload)
  /\ \E o \in HttpOutcomes : outcome' = o
  /\ pc' = "responded"
  /\ UNCHANGED <<timeout, today, extracted, ticket, origin, record, valid,
                 payload, result, exc>>

\* the rest of post_incident: raise_for_status, the result, the handlers
PostIncidentReturn ==
  /\ pc = "responded"
  /\ result' = HandleResponse(outcome, timeout)
  /\ pc' = AfterResponse(outcome)
  /\ UNCHANGED <<timeout, today, extracted, ticket, origin, record, valid,
                 payload, sent, outcome, exc>>

Next ==
  \/ TextToIncidentTicket
  \/ UpstreamFailure
  \/ CallerRecord
  \/ Validate
  \/ PostIncidentFromDict
  \/ HttpPost
  \/ PostIncidentReturn

Spec == Init /\ [][Next]_vars

(***************************************************************************)
(* Properties                                                              *)
(***************************************************************************)
StartsWith(str, prefix) ==
  Len(str) >= Len(prefix) /\ SubSeq(str, 1, Len(prefix)) = prefix

\* the Extractor returned a dict carrying the key `error`
CarriesError == extracted.kind = "object" /\ "error" \in DOMAIN extracted.obj

\* the Extractor returned something that carries no `error` key
ExtractedClean == extracted.kind # "none" /\ ~CarriesError

\* the keys of the record that are absent, as positions in RequiredFields
AbsentFields == {i \in 1..Len(RequiredFields) : RequiredFields[i] \notin DOMAIN record}

HasAllFields == RequiredKeys \subseteq DOMAIN record

\* classes of HTTP status
Is2xx(o) == o.kind = "http" /\ 200 <= o.status /\ o.status <= 299

Is4xx5xx(o) == o.kind = "http" /\ 400 <= o.status /\ o.status <= 599

\* the fallback the Pipeline section of the specification lists for each field
Default(k) ==
  CASE k \in {"policyId", "customerName"} -> JStr("UNKNOWN")
    [] k \in {"incidentType", "location"} -> JStr("unspecified")
    [] k = "description" -> JStr("")
    [] k = "estimatedDamage" -> JFloat(0)

\* "null, missing or empty", read widely: any value Python counts as false
NullMissingOrEmpty(v) ==
  v \in {Null, JStr(""), JList0, JDictN(0), JBool(FALSE), JInt(0), JFloat(0)}

----------------------------------------------------------------------------
\* C1: for every value the Extractor returns without an `error` key,
\* text_to_incident_ticket returns a dict holding all seven keys, each with a
\* non-null value, and does not raise.
C1_AlwaysSevenFields ==
  ExtractedClean =>
    /\ exc.by # "text_to_incident_ticket"
    /\ ticket.kind = "object"
    /\ RequiredKeys \subseteq DOMAIN ticket.obj
    /\ \A k \in RequiredKeys : ticket.obj[k] # Null

----------------------------------------------------------------------------
\* C2: a record that text_to_incident_ticket produced and that was sent in the
\* POST has all seven fields, a date that parses as year-month-day and a
\* numeric damage: validate_incident_data would accept it.
C2_PostedRecordWellTyped ==
  (origin = "pipeline" /\ Len(sent) > 0) =>
    /\ RequiredKeys \subseteq DOMAIN sent[1]
    /\ Strptime(sent[1]["incidentDate"]) = ""
    /\ sent[1]["estimatedDamage"].t \in {"int", "float"}
    /\ ValidateIncidentData(sent[1]).ok

----------------------------------------------------------------------------
----------------------------------------------------------------------------
\* C4: a call of post_incident issues at most one POST; once the POST has
\* ended, however it ended, the call's next step is to return and no further
\* POST goes out.
C4_AtMostOnePost ==
  [][ /\ Len(sent') <= 1
      /\ pc = "responded" => (pc' = "returned" /\ sent' = sent) ]_vars

C4_Witness ==
  /\ pc = "returned"
  /\ outcome.kind \in {"timeout", "network"}
  /\ Len(sent) = 1
  /\ result["success"] = JBool(FALSE)

----------------------------------------------------------------------------
\* C5: an Extractor result that contains the key `error` is returned by
\* text_to_incident_ticket as it is: same keys, same values, nothing added.
C5_ErrorShortCircuit ==
  CarriesError =>
    /\ exc.by # "text_to_incident_ticket"
    /\ ticket = extracted
    /\ origin = "pipeline"
    /\ record = extracted.obj

C5_Witness ==
  /\ CarriesError
  /\ RequiredKeys \subseteq DOMAIN extracted.obj
  /\ extracted.obj["error"] = Null
  /\ ticket = extracted

----------------------------------------------------------------------------
\* C6: for an extracted dict without `error`, the returned record is decided
\* field by field: the default ("UNKNOWN", "UNKNOWN", "unspecified", "",
\* "unspecified", 0.0) when the extracted value is null, missing or empty and
\* the extracted value otherwise (the damage as a number); incidentDate is the
\* extracted one when given and today's date, year-month-day, when null or
\* missing.
C6_FieldByField ==
  (extracted.kind = "object" /\ ~CarriesError) =>
    /\ ticket.kind = "object"
    /\ DOMAIN ticket.obj = RequiredKeys
    /\ \A k \in RequiredKeys \ {"incidentDate", "estimatedDamage"} :
         ticket.obj[k] =
           IF NullMissingOrEmpty(DictGet(extracted.obj, k))
           THEN Default(k) ELSE DictGet(extracted.obj, k)
    /\ LET v == DictGet(extracted.obj, "estimatedDamage")
       IN  /\ ticket.obj["estimatedDamage"].t = "float"
           /\ NullMissingOrEmpty(v) => ticket.obj["estimatedDamage"] = Default("estimatedDamage")
           /\ v.t \in {"int", "float"} => ticket.obj["estimatedDamage"].n = v.n
    /\ ticket.obj["incidentDate"] =
         IF DictGet(extracted.obj, "incidentDate") = Null
         THEN JStr(Strftime(today)) ELSE DictGet(extracted.obj, "incidentDate")

----------------------------------------------------------------------------
\* C7: validate_incident_data answers (False, "Missing required field: <k>")
\* exactly when some required key is absent, <k> being the first absent key in
\* the order policyId, customerName, incidentDate, incidentType, description,
\* location, estimatedDamage; that answer comes before any complaint about the
\* date or the damage.
C7_FirstMissingField ==
  valid.called =>
    IF AbsentFields # {}
    THEN \E i \in AbsentFields :
           /\ \A j \in 1..(i - 1) : RequiredFields[j] \in DOMAIN record
           /\ valid = [called |-> TRUE, exc |-> "", ok |-> FALSE,
                       msg |-> JStr("Missing required field: " \o RequiredFields[i])]
    ELSE ~StartsWith(valid.msg.s, "Missing required field")

C7_Witness ==
  /\ valid.called
  /\ Cardinality(AbsentFields) >= 2
  /\ "policyId" \in DOMAIN record
  /\ "incidentDate" \in DOMAIN record
  /\ Strptime(record["incidentDate"]) # ""
  /\ valid.msg = JStr("Missing required field: customerName")

----------------------------------------------------------------------------
\* C8: for a record with all seven keys whose incidentDate does not parse as
\* year-month-day (another format, a day or month out of range, "", null, a
\* value that is no string), validate_incident_data returns
\* (False, "incidentDate must be in YYYY-MM-DD format") and raises nothing,
\* whatever the damage is; a date that parses is not rejected for its format.
C8_BadDateReported ==
  (valid.called /\ HasAllFields) =>
    IF Strptime(record["incidentDate"]) # ""
    THEN valid = [called |-> TRUE, exc |-> "", ok |-> FALSE,
                  msg |-> JStr("incidentDate must be in YYYY-MM-DD format")]
    ELSE valid.msg # JStr("incidentDate must be in YYYY-MM-DD format")

----------------------------------------------------------------------------
\* C9: for a record with all seven keys and a date that parses,
\* validate_incident_data returns (True, None) exactly when the damage is an
\* integer or a floating-point number, and (False, "estimatedDamage must be a
\* number") for a string, null, a boolean, a list or an object.
C9_DamageNumeric ==
  (valid.called /\ HasAllFields /\ Strptime(record["incidentDate"]) = "") =>
    IF record["estimatedDamage"].t \in {"int", "float"}
    THEN valid = [called |-> TRUE, exc |-> "", ok |-> TRUE, msg |-> Null]
    ELSE valid = [called |-> TRUE, exc |-> "", ok |-> FALSE,
                  msg |-> JStr("estimatedDamage must be a number")]

----------------------------------------------------------------------------
\* C10: validate_incident_data leaves the record as it was, and once it has
\* answered (True, None), post_incident_from_dict on that record does not fail
\* on a missing key, sends a body holding exactly the seven keys with the
\* record's values (no other key of the record), and returns a result.
C10_ValidatedRecordPosted ==
  [][ /\ (pc = "record" /\ valid'.called) => record' = record
      /\ (valid'.called /\ valid'.ok) =>
           /\ exc'.by # "post_incident_from_dict"
           /\ Len(sent') > 0 =>
                /\ DOMAIN sent'[1] = RequiredKeys
                /\ \A k \in RequiredKeys : sent'[1][k] = record'[k]
           /\ pc' = "returned" => "success" \in DOMAIN result' ]_vars

C10_Witness ==
  /\ pc = "returned"
  /\ valid.called /\ valid.ok
  /\ "error" \in DOMAIN record
  /\ Len(sent) = 1
  /\ "error" \notin DOMAIN sent[1]
  /\ sent[1]["incidentDate"] = record["incidentDate"]

====
